---------------------------- MODULE Spec2Model ----------------------------
(***************************************************************************)
(* State-machine model of the Home component of src/app/page.tsx (the      *)
(* version with per-provider requests, lines 264-643): the React state     *)
(* (query, loading, analyzing, results, history, location), the provider   *)
(* and analyze requests in flight, and the handlers handleSubmit,          *)
(* handleAnalyze and requestLocation with their continuations.             *)
(*                                                                         *)
(* Text that the code inspects or builds (the query, the place names) is a *)
(* sequence of one-character strings, so that trim, toLowerCase, includes  *)
(* and the template literals are computed.  Text that the code only        *)
(* stores (provider labels, response bodies, error messages) is a string.  *)
(* The timestamp field of a response is never read by a handler and is     *)
(* left out, and so is the sidebarOpen flag.                               *)
(***************************************************************************)
EXTENDS Integers, Sequences, FiniteSets, TLC

VARIABLES
  query,               \* useState("")            the text of the input box
  loading,             \* useState(false)
  analyzing,           \* useState(false)
  results,             \* useState<QueryResult | null>(null)
  history,             \* useState<string[]>([])
  location,            \* useState<Location | null>(null)
  locationPermission,  \* useState("prompt")
  inflight,            \* the provider fetches that have not settled yet
  waiting,             \* the handleSubmit calls suspended at await Promise.all
  analyzeReq,          \* the analyze fetch that has not settled yet
  sub,                 \* number of accepted submissions (history variable)
  log                  \* per slot, the updates applied to the current result
                       \* set (history variable)

vars == <<query, loading, analyzing, results, history, location,
          locationPermission, inflight, waiting, analyzeReq, sub, log>>

-----------------------------------------------------------------------------
(* Bounds of the model. *)

\* Submissions accepted in one behaviour.
MaxSubmits == 2

-----------------------------------------------------------------------------
(* Values. *)

\* JavaScript's undefined, for a string-valued field that is absent.
Undefined == "undefined"

\* results === null
NoResult == [null |-> TRUE]

\* location === null
NoLocation == [null |-> TRUE]

\* no analyze request outstanding
NoRequest == [null |-> TRUE]

\* The indices of modelEndpoints / initialResponses.
Slots == 0 .. 3

\* The model labels of initialResponses.
Labels ==
  [i \in Slots |->
     CASE i = 0 -> "GPT-5.2 Thinking (OpenAI) - Dec 2025"
       [] i = 1 -> "Grok 4.1 Thinking (xAI) - Dec 2025"
       [] i = 2 -> "Claude Opus 4.5 (Anthropic) - Dec 2025"
       [] i = 3 -> "Gemini 3 Pro (Google) - Dec 2025"]

\* The endpoints of modelEndpoints.
Endpoints ==
  [i \in Slots |->
     CASE i = 0 -> "/api/query-individual/gpt"
       [] i = 1 -> "/api/query-individual/grok"
       [] i = 2 -> "/api/query-individual/claude"
       [] i = 3 -> "/api/query-individual/gemini"]

\* The message the catch block stores.
FetchFailed == "Failed to fetch response"

-----------------------------------------------------------------------------
(* Text: String.prototype.trim, toLowerCase, includes. *)

Whitespace == {" ", "\t", "\n"}

RECURSIVE TrimStart(_)
TrimStart(s) ==
  IF s # <<>> /\ Head(s) \in Whitespace THEN TrimStart(Tail(s)) ELSE s

RECURSIVE TrimEnd(_)
TrimEnd(s) ==
  IF s # <<>> /\ s[Len(s)] \in Whitespace
  THEN TrimEnd(SubSeq(s, 1, Len(s) - 1))
  ELSE s

\* Mutant of Trim: the text is tested as typed.
TrimNothing(s) == s

Trim(s) == TrimEnd(TrimStart(s))

UpperToLower ==
  [c \in {"A", "B", "C", "D", "E", "F", "G", "H", "I", "J", "K", "L", "M",
          "N", "O", "P", "Q", "R", "S", "T", "U", "V", "W", "X", "Y", "Z"} |->
     CASE c = "A" -> "a" [] c = "B" -> "b" [] c = "C" -> "c" [] c = "D" -> "d"
       [] c = "E" -> "e" [] c = "F" -> "f" [] c = "G" -> "g" [] c = "H" -> "h"
       [] c = "I" -> "i" [] c = "J" -> "j" [] c = "K" -> "k" [] c = "L" -> "l"
       [] c = "M" -> "m" [] c = "N" -> "n" [] c = "O" -> "o" [] c = "P" -> "p"
       [] c = "Q" -> "q" [] c = "R" -> "r" [] c = "S" -> "s" [] c = "T" -> "t"
       [] c = "U" -> "u" [] c = "V" -> "v" [] c = "W" -> "w" [] c = "X" -> "x"
       [] c = "Y" -> "y" [] c = "Z" -> "z"]

ToLowerCase(s) ==
  [k \in 1 .. Len(s) |->
     IF s[k] \in DOMAIN UpperToLower THEN UpperToLower[s[k]] ELSE s[k]]

Includes(s, part) ==
  \E k \in 1 .. (Len(s) - Len(part) + 1) :
    SubSeq(s, k, k + Len(part) - 1) = part

-----------------------------------------------------------------------------
(* Number.prototype.toFixed(2).  A coordinate is an integer number of      *)
(* thousandths of a degree.                                                *)

DigitChar(d) == <<"0", "1", "2", "3", "4", "5", "6", "7", "8", "9">>[d + 1]

RECURSIVE Digits(_)
Digits(n) ==
  IF n < 10 THEN <<DigitChar(n)>>
  ELSE Digits(n \div 10) \o <<DigitChar(n % 10)>>

ToFixed2(m) ==
  LET a == IF m < 0 THEN 0 - m ELSE m
      h == (a + 5) \div 10
  IN  (IF m < 0 THEN <<"-">> ELSE <<>>)
        \o Digits(h \div 100)
        \o <<".", DigitChar((h % 100) \div 10), DigitChar(h % 10)>>

-----------------------------------------------------------------------------
(* The Location Enricher. *)

locationKeywords ==
  << <<"w", "e", "a", "t", "h", "e", "r">>,
     <<"t", "e", "m", "p", "e", "r", "a", "t", "u", "r", "e">>,
     <<"f", "o", "r", "e", "c", "a", "s", "t">>,
     <<"n", "e", "a", "r", " ", "m", "e">>,
     <<"n", "e", "a", "r", "b", "y">>,
     <<"l", "o", "c", "a", "l">>,
     <<"a", "r", "o", "u", "n", "d", " ", "h", "e", "r", "e">> >>

\* Mutant of shouldAddLocation: the query is not lower-cased.
shouldAddLocationCaseSensitive(q) ==
  \E k \in 1 .. Len(locationKeywords) :
    Includes(q, locationKeywords[k])

shouldAddLocation(q) ==
  \E k \in 1 .. Len(locationKeywords) :
    Includes(ToLowerCase(q), locationKeywords[k])

\* An absent city or country is the empty text: both are falsy in the test
\* location.city && location.country.
locationString(loc) ==
  IF loc.city # <<>> /\ loc.country # <<>>
  THEN <<"i", "n", " ">> \o loc.city \o <<",", " ">> \o loc.country
  ELSE <<"a", "t", " ", "c", "o", "o", "r", "d", "i", "n", "a", "t", "e",
         "s", " ">>
         \o ToFixed2(loc.latitude) \o <<",", " ">> \o ToFixed2(loc.longitude)

enhanceQueryWithLocation(q, loc) ==
  IF loc = NoLocation \/ ~shouldAddLocation(q)
  THEN q
  ELSE q \o <<" ">> \o locationString(loc)

-----------------------------------------------------------------------------
(* The inputs of the environment. *)

\* The texts the user types: " ", "hi", "Local".
Queries ==
  { <<" ">>,
    <<"h", "i">>,
    <<"L", "o", "c", "a", "l">> }

\* What navigator.geolocation and the reverse geocoder can deliver: the
\* coordinates alone (the lookup failed or named no city), or with a place.
Positions ==
  { [latitude |-> 48856, longitude |-> 2352, city |-> <<>>, country |-> <<>>],
    [latitude |-> 48856, longitude |-> 2352,
     city |-> <<"P", "a", "r", "i", "s">>,
     country |-> <<"F", "r", "a", "n", "c", "e">>] }

\* How a provider fetch can end: a 2xx LLMResponse body, a 2xx body whose
\* model field is the backend's own name for the provider, a non-2xx reply
\* with a JSON error body, or a rejection (network failure, or a body that
\* response.json() cannot parse).
Outcomes == {"ok", "relabel", "httpJson", "throw"}

\* How the analyze fetch can end: a body with an analysis field, a JSON body
\* without one (an error reply), or a rejection.
AnalyzeOutcomes == {"ok", "noField", "throw"}

\* The text a provider returns for request r.
AnswerText(r) == "answer " \o ToString(r.sub) \o " " \o Endpoints[r.index]

\* The backend's own name for provider i.
BackendLabel(i) == "backend " \o Endpoints[i]

\* The value of await response.json() for request r ending as kind.
ProviderData(r, kind) ==
  CASE kind = "ok" ->
         [model |-> Labels[r.index], response |-> AnswerText(r),
          error |-> Undefined]
    [] kind = "relabel" ->
         [model |-> BackendLabel(r.index), response |-> AnswerText(r),
          error |-> Undefined]
    [] kind = "httpJson" ->
         [model |-> Undefined, response |-> Undefined, error |-> Undefined]

\* The analysis text the backend returns for an analyze request.
AnalysisText(req) == "analysis " \o ToString(req.sub)

-----------------------------------------------------------------------------
(* Init: the state after the first render. *)

Init ==
  /\ query = <<>>
  /\ loading = FALSE
  /\ analyzing = FALSE
  /\ results = NoResult
  /\ history = <<>>
  /\ location = NoLocation
  /\ locationPermission = "prompt"
  /\ inflight = {}
  /\ waiting = {}
  /\ analyzeReq = NoRequest
  /\ sub = 0
  /\ log = [i \in Slots |-> <<>>]

-----------------------------------------------------------------------------
(* requestLocation: its continuation after getCurrentPosition and the      *)
(* reverse geocoding have settled.                                         *)

RequestLocationDenied ==
  /\ locationPermission = "prompt"
  /\ locationPermission' = "denied"
  /\ UNCHANGED <<query, loading, analyzing, results, history, location,
                 inflight, waiting, analyzeReq, sub, log>>

RequestLocationGranted(pos) ==
  /\ locationPermission = "prompt"
  /\ location' = pos
  /\ locationPermission' = "granted"
  /\ UNCHANGED <<query, loading, analyzing, results, history, inflight,
                 waiting, analyzeReq, sub, log>>

-----------------------------------------------------------------------------
(* The input box and the history buttons. *)

\* onChange of the Input, which is disabled while loading.
SetQuery(q) ==
  /\ ~loading
  /\ q # query
  /\ query' = q
  /\ UNCHANGED <<loading, analyzing, results, history, location,
                 locationPermission, inflight, waiting, analyzeReq, sub, log>>

\* onClick of a history button showing item: setQuery(item).
HistoryClick(item) ==
  /\ \E k \in 1 .. Len(history) : history[k] = item
  /\ item # query
  /\ query' = item
  /\ UNCHANGED <<loading, analyzing, results, history, location,
                 locationPermission, inflight, waiting, analyzeReq, sub, log>>

-----------------------------------------------------------------------------
(* handleSubmit. *)

\* Mutant of FormCanSubmit: the form stays enabled while loading.
FormCanSubmitWhileLoading == Trim(query) # <<>>

\* The submit button is disabled={loading || !query.trim()} and the Input is
\* disabled={loading}: the form cannot be submitted otherwise.
FormCanSubmit == ~loading /\ Trim(query) # <<>>

\* Mutant of initialResponses: the last slot starts settled.
initialResponsesLastSettled ==
  [i \in Slots |->
     [model |-> Labels[i], response |-> "", error |-> Undefined,
      loading |-> (i # 3)]]

initialResponses ==
  [i \in Slots |->
     [model |-> Labels[i], response |-> "", error |-> Undefined,
      loading |-> TRUE]]

\* Mutant of PushHistory: slice(0, 20).
PushHistoryKeepTwenty(q, prev) ==
  <<q>> \o SubSeq(prev, 1, IF Len(prev) < 20 THEN Len(prev) ELSE 20)

\* [query, ...prev.slice(0, 19)]
PushHistory(q, prev) ==
  <<q>> \o SubSeq(prev, 1, IF Len(prev) < 19 THEN Len(prev) ELSE 19)

\* The requests handleSubmit dispatches for submission n with body q.
Dispatch(n, q) == {[index |-> i, sub |-> n, query |-> q] : i \in Slots}

\* handleSubmit up to its await Promise.all(promises).
HandleSubmit ==
  IF Trim(query) = <<>>
  THEN UNCHANGED vars
  ELSE LET enhancedQuery == enhanceQueryWithLocation(query, location)
       IN  /\ loading' = TRUE
           /\ results' = [query |-> enhancedQuery,
                          responses |-> initialResponses,
                          analysis |-> Undefined]
           /\ history' = PushHistory(query, history)
           /\ inflight' = inflight \cup Dispatch(sub + 1, enhancedQuery)
           /\ waiting' = waiting \cup {sub + 1}
           /\ sub' = sub + 1
           /\ log' = [i \in Slots |-> <<>>]
           /\ UNCHANGED <<query, analyzing, location, locationPermission,
                          analyzeReq>>

Submit ==
  /\ FormCanSubmit
  /\ sub < MaxSubmits
  /\ HandleSubmit

\* Mutant of TryUpdate: the slot is written into the responses captured at
\* submission instead of prev.responses.
TryUpdateFromSnapshot(prev, index, data) ==
  IF prev = NoResult THEN prev
  ELSE [prev EXCEPT !.responses =
          [initialResponses EXCEPT ![index] =
             [model |-> data.model, response |-> data.response,
              error |-> data.error, loading |-> FALSE]]]

\* The updater of the try block: setResults(prev => ...) with data.
TryUpdate(prev, index, data) ==
  IF prev = NoResult THEN prev
  ELSE [prev EXCEPT !.responses[index] =
          [model |-> data.model, response |-> data.response,
           error |-> data.error, loading |-> FALSE]]

\* Mutant of CatchUpdate: the slot is replaced instead of spread.
CatchUpdateReplacesSlot(prev, index) ==
  IF prev = NoResult THEN prev
  ELSE [prev EXCEPT !.responses[index] =
          [model |-> Undefined, response |-> Undefined,
           error |-> FetchFailed, loading |-> FALSE]]

\* Mutant of CatchUpdate: the slot is written into the responses captured at
\* submission instead of prev.responses.
CatchUpdateFromSnapshot(prev, index) ==
  IF prev = NoResult THEN prev
  ELSE [prev EXCEPT !.responses =
          [initialResponses EXCEPT ![index] =
             [@ EXCEPT !.loading = FALSE, !.error = FetchFailed]]]

\* The updater of the catch block.
CatchUpdate(prev, index) ==
  IF prev = NoResult THEN prev
  ELSE [prev EXCEPT !.responses[index] =
          [@ EXCEPT !.loading = FALSE, !.error = FetchFailed]]

\* Mutant of Settled: the continuation can run again.
SettledNone(r) == {}

\* The requests that leave flight when r settles: r itself; each async
\* callback of modelEndpoints.map runs its try or its catch once.
Settled(r) == {r}

\* The continuation of one provider request r, ending as kind.
SettleProvider(r, kind) ==
  /\ r \in inflight
  /\ inflight' = inflight \ Settled(r)
  /\ results' = IF kind = "throw"
                THEN CatchUpdate(results, r.index)
                ELSE TryUpdate(results, r.index, ProviderData(r, kind))
  /\ log' = IF results = NoResult THEN log
            ELSE [log EXCEPT ![r.index] =
                    Append(@, [sub |-> r.sub, outcome |-> kind])]
  /\ UNCHANGED <<query, loading, analyzing, history, location,
                 locationPermission, waiting, analyzeReq, sub>>

\* Mutant of SubmitDone: Promise.all is not awaited.
SubmitDoneNoAwait(n) ==
  /\ n \in waiting
  /\ loading' = FALSE
  /\ waiting' = waiting \ {n}
  /\ UNCHANGED <<query, analyzing, results, history, location,
                 locationPermission, inflight, analyzeReq, sub, log>>

\* handleSubmit after await Promise.all(promises) of submission n.
SubmitDone(n) ==
  /\ n \in waiting
  /\ \A r \in inflight : r.sub # n
  /\ loading' = FALSE
  /\ waiting' = waiting \ {n}
  /\ UNCHANGED <<query, analyzing, results, history, location,
                 locationPermission, inflight, analyzeReq, sub, log>>

-----------------------------------------------------------------------------
(* handleAnalyze. *)

\* Mutant of AnalyzeShown: some instead of every.
AnalyzeShownSome ==
  /\ results # NoResult
  /\ \E i \in Slots : ~results.responses[i].loading

\* The button is rendered under results && results.responses.every(r =>
\* !r.loading).
AnalyzeShown ==
  /\ results # NoResult
  /\ \A i \in Slots : ~results.responses[i].loading

\* The rendered button is disabled={analyzing}.
AnalyzeEnabled == AnalyzeShown /\ ~analyzing

\* handleAnalyze up to its await fetch.  The request is recorded by the
\* submission whose result set it was issued for; the body it posts
\* (results.query, results.responses) is read by the backend alone.
HandleAnalyze ==
  IF results = NoResult
  THEN UNCHANGED vars
  ELSE /\ analyzing' = TRUE
       /\ analyzeReq' = [sub |-> sub]
       /\ UNCHANGED <<query, loading, results, history, location,
                      locationPermission, inflight, waiting, sub, log>>

Analyze ==
  /\ AnalyzeEnabled
  /\ HandleAnalyze

\* setResults((prev) => prev ? { ...prev, analysis: data.analysis } : null)
AnalysisUpdate(prev, analysis) ==
  IF prev = NoResult THEN NoResult
  ELSE [prev EXCEPT !.analysis = analysis]

\* The continuation of the analyze request, ending as kind.
SettleAnalyze(kind) ==
  /\ analyzeReq # NoRequest
  /\ results' = CASE kind = "ok" ->
                       AnalysisUpdate(results, AnalysisText(analyzeReq))
                  [] kind = "noField" -> AnalysisUpdate(results, Undefined)
                  [] kind = "throw" -> results
  /\ analyzing' = FALSE
  /\ analyzeReq' = NoRequest
  /\ UNCHANGED <<query, loading, history, location, locationPermission,
                 inflight, waiting, sub, log>>

-----------------------------------------------------------------------------

\* The items the history buttons show.
HistoryItems == {history[k] : k \in 1 .. Len(history)}

\* A suspended handleSubmit call can resume: every promise it awaits has
\* settled.  Its continuation is a microtask, so it runs before the event
\* loop handles the next user event or network completion.
ContinuationReady == \E n \in waiting : \A r \in inflight : r.sub # n

ProviderSettles ==
  \E r \in inflight, kind \in Outcomes :
    ~ContinuationReady /\ SettleProvider(r, kind)

SubmitContinues == \E n \in waiting : SubmitDone(n)

\* The user's events and the continuations of the requests.
Interaction ==
  \/ \E q \in Queries : ~ContinuationReady /\ SetQuery(q)
  \/ \E item \in HistoryItems : ~ContinuationReady /\ HistoryClick(item)
  \/ ~ContinuationReady /\ Submit
  \/ ProviderSettles
  \/ SubmitContinues
  \/ ~ContinuationReady /\ Analyze
  \/ \E kind \in AnalyzeOutcomes : ~ContinuationReady /\ SettleAnalyze(kind)

Next ==
  \/ ~ContinuationReady /\ RequestLocationDenied
  \/ \E pos \in Positions : ~ContinuationReady /\ RequestLocationGranted(pos)
  \/ Interaction

Spec == Init /\ [][Next]_vars

-----------------------------------------------------------------------------
(* A second specification, for the history list: the state after n earlier *)
(* submissions (all answered), with n just below and at the cap, in a      *)
(* session whose geolocation request was denied, so that requestLocation   *)
(* has nothing left to do.  Here sub counts the submissions accepted since *)
(* this state.                                                             *)

PastQueries(n) ==
  [k \in 1 .. n |->
     IF k % 2 = 1 THEN <<"h", "i">> ELSE <<"L", "o", "c", "a", "l">>]

InitHistory ==
  /\ history \in {PastQueries(19), PastQueries(20)}
  /\ query = history[1]
  /\ loading = FALSE
  /\ analyzing = FALSE
  /\ results =
       [query |-> history[1],
        responses |->
          [i \in Slots |->
             [model |-> Labels[i],
              response |-> AnswerText([index |-> i, sub |-> 0]),
              error |-> Undefined, loading |-> FALSE]],
        analysis |-> Undefined]
  /\ location = NoLocation
  /\ locationPermission = "denied"
  /\ inflight = {}
  /\ waiting = {}
  /\ analyzeReq = NoRequest
  /\ sub = 0
  /\ log = [i \in Slots |-> <<[sub |-> 0, outcome |-> "ok"]>>]

SpecHistory == InitHistory /\ [][Interaction]_vars

-----------------------------------------------------------------------------
(* A third specification, for the early return of handleSubmit: besides    *)
(* the user's events, handleSubmit is also called while the text of the    *)
(* input box is blank, the call its first statement answers (the submit    *)
(* button is disabled then, so no click delivers it).  Geolocation is not  *)
(* supported in this session: requestLocation returns at once.             *)

BlankSubmit ==
  /\ Trim(query) = <<>>
  /\ HandleSubmit

NextBlank ==
  \/ Interaction
  \/ ~ContinuationReady /\ BlankSubmit

SpecBlank == Init /\ [][NextBlank]_vars

-----------------------------------------------------------------------------
(* A fourth specification, for enhanceQueryWithLocation: the states before *)
(* the first submission, with requestLocation settled (or not) and a text  *)
(* typed, from which the form is submitted.                                *)

\* "", " ", "hi", " hi ", "tell me a joke", "weather tomorrow", "WEATHER",
\* "Forecast?", "room temperature", "cafes near me", "near  me", "Nearby",
\* "Local news", "loca l", "weathe", "is it cold around here".
EnrichQueries ==
  {
    <<>>,
    <<" ">>,
    <<"h", "i">>,
    <<" ", "h", "i", " ">>,
    <<"t", "e", "l", "l", " ", "m", "e", " ", "a", " ", "j", "o", "k", "e">>,
    <<"w", "e", "a", "t", "h", "e", "r", " ", "t", "o", "m", "o", "r", "r",
      "o", "w">>,
    <<"W", "E", "A", "T", "H", "E", "R">>,
    <<"F", "o", "r", "e", "c", "a", "s", "t", "?">>,
    <<"r", "o", "o", "m", " ", "t", "e", "m", "p", "e", "r", "a", "t", "u",
      "r", "e">>,
    <<"c", "a", "f", "e", "s", " ", "n", "e", "a", "r", " ", "m", "e">>,
    <<"n", "e", "a", "r", " ", " ", "m", "e">>,
    <<"N", "e", "a", "r", "b", "y">>,
    <<"L", "o", "c", "a", "l", " ", "n", "e", "w", "s">>,
    <<"l", "o", "c", "a", " ", "l">>,
    <<"w", "e", "a", "t", "h", "e">>,
    <<"i", "s", " ", "i", "t", " ", "c", "o", "l", "d", " ", "a", "r", "o",
      "u", "n", "d", " ", "h", "e", "r", "e">> }

\* No location; coordinates with no place, with a city and a country, with
\* a city alone, with a country alone; and the same south of the equator.
\* No coordinate lies half-way between two hundredths.
EnrichLocations ==
  { NoLocation,
    [latitude |-> 48856, longitude |-> 2352, city |-> <<>>, country |-> <<>>],
    [latitude |-> 48856, longitude |-> 2352,
     city |-> <<"P", "a", "r", "i", "s">>,
     country |-> <<"F", "r", "a", "n", "c", "e">>],
    [latitude |-> 48856, longitude |-> 2352,
     city |-> <<"P", "a", "r", "i", "s">>, country |-> <<>>],
    [latitude |-> 48856, longitude |-> 2352,
     city |-> <<>>, country |-> <<"F", "r", "a", "n", "c", "e">>],
    [latitude |-> -33868, longitude |-> 151209,
     city |-> <<>>, country |-> <<>>],
    [latitude |-> -4, longitude |-> 9996, city |-> <<>>, country |-> <<>>] }

InitEnrich ==
  /\ query \in EnrichQueries
  /\ location \in EnrichLocations
  /\ locationPermission = (IF location = NoLocation THEN "prompt"
                           ELSE "granted")
  /\ loading = FALSE
  /\ analyzing = FALSE
  /\ results = NoResult
  /\ history = <<>>
  /\ inflight = {}
  /\ waiting = {}
  /\ analyzeReq = NoRequest
  /\ sub = 0
  /\ log = [i \in Slots |-> <<>>]

NextEnrich == Submit

SpecEnrich == InitEnrich /\ [][NextEnrich]_vars

-----------------------------------------------------------------------------
(* A fifth specification, with the fairness the claim about completion     *)
(* assumes: every dispatched provider request settles, and the event loop  *)
(* then runs the continuation of handleSubmit.  Nothing is assumed of the  *)
(* analyze request or of the user.  Geolocation is not supported in this   *)
(* session.                                                                *)

SpecLive ==
  /\ Init
  /\ [][Interaction]_vars
  /\ WF_vars(ProviderSettles)
  /\ WF_vars(SubmitContinues)

-----------------------------------------------------------------------------
(* Vocabulary of the properties. *)

HasResults == results # NoResult

Pending(i) == results.responses[i].loading

AllSettled == HasResults /\ \A i \in Slots : ~Pending(i)

LastUpdate(i) == log[i][Len(log[i])]

\* The step of a provider request r settling.
SettleStep(r) == r \in inflight /\ r \notin inflight' /\ sub' = sub

\* The step of an accepted submission.
SubmitStep == sub' = sub + 1

-----------------------------------------------------------------------------
(* Properties. *)

\* C1: every accepted submission (the query is non-empty after trimming)
\* sets results to exactly four slots in the order gpt, grok, claude, gemini,
\* each pending with empty text and no error, with no analysis, whatever the
\* result set was before, and dispatches one request per endpoint.
C1_SubmitCreatesFourPendingSlots ==
  [][SubmitStep =>
       /\ Trim(query) # <<>>
       /\ results' # NoResult
       /\ DOMAIN results'.responses = 0 .. 3
       /\ results'.responses[0].model = "GPT-5.2 Thinking (OpenAI) - Dec 2025"
       /\ results'.responses[1].model = "Grok 4.1 Thinking (xAI) - Dec 2025"
       /\ results'.responses[2].model = "Claude Opus 4.5 (Anthropic) - Dec 2025"
       /\ results'.responses[3].model = "Gemini 3 Pro (Google) - Dec 2025"
       /\ \A i \in 0 .. 3 :
            /\ results'.responses[i].loading = TRUE
            /\ results'.responses[i].response = ""
            /\ results'.responses[i].error = Undefined
       /\ results'.analysis = Undefined
       /\ \A i \in 0 .. 3 :
            \E r \in inflight' \ inflight : r.index = i /\ r.sub = sub'
  ]_vars

\* C1 witness: a second submission has replaced a settled result set by four
\* pending slots.
C1_Witness ==
  /\ sub = 2
  /\ HasResults
  /\ \A i \in Slots : Pending(i) /\ log[i] = <<>>

\* C2: at most one terminal update is applied to each slot of the current
\* result set, and a slot that has left pending stays settled until a new
\* submission replaces the result set.
C2_OneTerminalUpdatePerSlot ==
  [][/\ \A i \in Slots : Len(log'[i]) <= 1
     /\ \A i \in Slots :
          (HasResults /\ ~Pending(i) /\ sub' = sub) =>
             ~results'.responses[i].loading
  ]_vars

\* C2 witness: all four slots of the second submission have received their
\* single update.
C2_Witness ==
  /\ sub = 2
  /\ AllSettled
  /\ \A i \in Slots : Len(log[i]) = 1

\* C3 as stated: the analysis action can be invoked if and only if a result
\* set exists and none of its four slots is pending.
C3_AvailableIffAllSettled ==
  (ENABLED Analyze) <=> AllSettled

\* C3 amended: the analysis action can be invoked if and only if a result
\* set exists, none of its four slots is pending, and no analyze request is
\* in progress (the button is rendered, and not disabled by analyzing).
C3_AvailableIffAllSettledAndIdle ==
  (ENABLED Analyze) <=> (AllSettled /\ ~analyzing)

\* C3 witness: every slot has settled and the action can be invoked.
C3_Witness ==
  /\ AllSettled
  /\ ~analyzing
  /\ ENABLED Analyze

\* C4: when the request of provider index i settles, only slot i of the
\* result set changes: the other slots, the query, the analysis and the
\* history are as before.
C4_SettleChangesOnlyItsSlot ==
  [][\A r \in inflight :
       (SettleStep(r) /\ HasResults) =>
          /\ results' # NoResult
          /\ \A j \in Slots \ {r.index} :
               results'.responses[j] = results.responses[j]
          /\ results'.query = results.query
          /\ results'.analysis = results.analysis
          /\ history' = history
  ]_vars

\* C4 witness: two slots have settled, one by success and one by failure,
\* while the other two are still pending.
C4_Witness ==
  /\ HasResults
  /\ \E i, j \in Slots :
       /\ i # j
       /\ ~Pending(i) /\ LastUpdate(i).outcome = "ok"
       /\ ~Pending(j) /\ LastUpdate(j).outcome = "throw"
       /\ \A k \in Slots \ {i, j} : Pending(k)

\* C5: when a provider request throws, its slot becomes settled with the
\* error message, keeping its label and its empty text; the other requests
\* stay in flight, their slots are untouched, and every slot still pending
\* has its request in flight.
C5_ThrowSettlesOnlyItsOwnSlot ==
  [][/\ \A r \in inflight :
          (SettleStep(r) /\ LastUpdate(r.index)'.outcome = "throw") =>
             /\ results'.responses[r.index] =
                  [model |-> Labels[r.index], response |-> "",
                   error |-> "Failed to fetch response", loading |-> FALSE]
             /\ results'.responses[r.index].model =
                  results.responses[r.index].model
             /\ inflight' = inflight \ {r}
             /\ \A j \in Slots \ {r.index} :
                  results'.responses[j] = results.responses[j]
     /\ \A i \in Slots :
          (results' # NoResult /\ results'.responses[i].loading) =>
             \E r \in inflight' : r.index = i /\ r.sub = sub'
  ]_vars

\* C5 witness: one request has thrown and a sibling has settled with its
\* own answer.
C5_Witness ==
  /\ HasResults
  /\ \E i, j \in Slots :
       /\ results.responses[i].error = FetchFailed
       /\ results.responses[i].model = Labels[i]
       /\ results.responses[j].error = Undefined
       /\ results.responses[j].response =
            AnswerText([index |-> j, sub |-> sub])

\* C6 as stated: a provider request answered with a non-2xx status leaves
\* its slot settled with an error message.
C6_Non2xxBecomesError ==
  \A i \in Slots :
    (HasResults /\ log[i] # <<>> /\ LastUpdate(i).outcome = "httpJson") =>
       /\ ~Pending(i)
       /\ results.responses[i].error # Undefined

\* C7: no request of an earlier submission is in flight once a submission
\* has replaced the result set, and every update applied to a slot of the
\* current result set was produced by a request of the current submission.
C7_NoStaleSettlement ==
  /\ \A r \in inflight : r.sub = sub
  /\ \A i \in Slots :
       \A k \in 1 .. Len(log[i]) : log[i][k].sub = sub

\* C7 witness: a slot of the second submission's result set has received
\* an answer, produced for the second submission.
C7_Witness ==
  /\ sub = 2
  /\ HasResults
  /\ \E i \in Slots :
       /\ log[i] # <<>>
       /\ results.responses[i].response =
            AnswerText([index |-> i, sub |-> 2])

\* The slot that the outcome kind of provider i's request of the current
\* submission produces.
OutcomeSlot(i, kind) ==
  CASE kind = "ok" ->
         [model |-> Labels[i],
          response |-> AnswerText([index |-> i, sub |-> sub]),
          error |-> Undefined, loading |-> FALSE]
    [] kind = "relabel" ->
         [model |-> BackendLabel(i),
          response |-> AnswerText([index |-> i, sub |-> sub]),
          error |-> Undefined, loading |-> FALSE]
    [] kind = "httpJson" ->
         [model |-> Undefined, response |-> Undefined,
          error |-> Undefined, loading |-> FALSE]
    [] kind = "throw" ->
         [model |-> Labels[i], response |-> "",
          error |-> FetchFailed, loading |-> FALSE]

\* C8: whatever the order in which the four requests of a submission
\* settle, and whatever their outcomes, no update is lost: a slot is pending
\* exactly while its request is in flight, and once its request has settled
\* it holds that request's outcome.
C8_NoLostUpdate ==
  HasResults =>
    \A i \in Slots :
      IF \E r \in inflight : r.index = i /\ r.sub = sub
      THEN Pending(i) /\ log[i] = <<>>
      ELSE /\ Len(log[i]) = 1
           /\ results.responses[i] = OutcomeSlot(i, log[i][1].outcome)

\* C8 witness: all four requests have settled, with successes and failures
\* among them.
C8_Witness ==
  /\ AllSettled
  /\ inflight = {}
  /\ \E i, j \in Slots :
       /\ log[i] # <<>> /\ log[i][1].outcome = "ok"
       /\ log[j] # <<>> /\ log[j][1].outcome = "throw"

\* C9 as stated: a result set always has four slots and slot i carries the
\* label given to index i at submission.
C9_LabelsFixed ==
  HasResults =>
    /\ DOMAIN results.responses = 0 .. 3
    /\ results.responses[0].model = "GPT-5.2 Thinking (OpenAI) - Dec 2025"
    /\ results.responses[1].model = "Grok 4.1 Thinking (xAI) - Dec 2025"
    /\ results.responses[2].model = "Claude Opus 4.5 (Anthropic) - Dec 2025"
    /\ results.responses[3].model = "Gemini 3 Pro (Google) - Dec 2025"

\* C10: the history never holds more than 20 entries, and each accepted
\* submission puts its query first, moves the earlier entries down by one
\* and drops the oldest when 20 were held.
C10_HistoryBoundedMostRecentFirst ==
  [][/\ Len(history') <= 20
     /\ SubmitStep =>
          /\ history'[1] = query
          /\ Len(history') =
               (IF Len(history) < 20 THEN Len(history) + 1 ELSE 20)
          /\ \A k \in 2 .. Len(history') : history'[k] = history[k - 1]
     /\ ~SubmitStep => history' = history
  ]_vars

\* C10 witness: two submissions were accepted and the list holds 20 entries,
\* so the oldest entry was dropped.
C10_Witness ==
  /\ sub = 2
  /\ Len(history) = 20

\* The text q is empty or holds white space only.
IsBlank(q) == \A k \in 1 .. Len(q) : q[k] \in {" ", "\t", "\n"}

\* C11: a handleSubmit call with an empty or whitespace-only query changes
\* nothing: results, history and loading are as before and no provider
\* request is dispatched.
C11_BlankSubmitIsNoOp ==
  [][(IsBlank(query) /\ HandleSubmit) =>
       /\ results' = results
       /\ history' = history
       /\ loading' = loading
       /\ inflight' = inflight
       /\ waiting' = waiting
  ]_vars

\* C11 witness: a result set and a history entry exist, the input box holds
\* white space only, and handleSubmit can be called with it.
C11_Witness ==
  /\ HasResults
  /\ history # <<>>
  /\ query # <<>>
  /\ IsBlank(query)
  /\ ENABLED BlankSubmit

\* The query q holds the keyword kw at position p, whatever the case of
\* its letters.
HoldsAt(q, kw, p) ==
  /\ p + Len(kw) - 1 <= Len(q)
  /\ \A m \in 1 .. Len(kw) :
       \/ q[p + m - 1] = kw[m]
       \/ /\ q[p + m - 1] \in DOMAIN UpperToLower
          /\ UpperToLower[q[p + m - 1]] = kw[m]

\* The query q holds one of the locality keywords.
HoldsKeyword(q) ==
  \E n \in 1 .. Len(locationKeywords) :
    \E p \in 1 .. Len(q) : HoldsAt(q, locationKeywords[n], p)

\* The coordinates phrase of each position of EnrichLocations.
CoordinatesPhrase(loc) ==
  CASE loc.latitude = 48856 ->
         <<"a", "t", " ", "c", "o", "o", "r", "d", "i", "n", "a", "t", "e",
           "s", " ", "4", "8", ".", "8", "6", ",", " ", "2", ".", "3", "5">>
    [] loc.latitude = -33868 ->
         <<"a", "t", " ", "c", "o", "o", "r", "d", "i", "n", "a", "t", "e",
           "s", " ", "-", "3", "3", ".", "8", "7", ",", " ", "1", "5", "1",
           ".", "2", "1">>
    [] loc.latitude = -4 ->
         <<"a", "t", " ", "c", "o", "o", "r", "d", "i", "n", "a", "t", "e",
           "s", " ", "-", "0", ".", "0", "0", ",", " ", "1", "0", ".", "0",
           "0">>

\* C12: the query sent to the providers differs from the submitted one
\* exactly when a location is known and the query holds a locality keyword
\* in any case; it is then the submitted query, a space, and "in <city>,
\* <country>" when city and country are resolved, the coordinates phrase
\* otherwise.
C12_EnrichedIffLocationAndKeyword ==
  [][SubmitStep =>
       LET sent == results'.query
           enrich == location # NoLocation /\ HoldsKeyword(query)
       IN  /\ \A r \in inflight' : r.query = sent
           /\ (sent # query) <=> enrich
           /\ enrich =>
                sent = query \o <<" ">> \o
                  (IF location.city # <<>> /\ location.country # <<>>
                   THEN <<"i", "n", " ">> \o location.city \o <<",", " ">>
                          \o location.country
                   ELSE CoordinatesPhrase(location))
           /\ (/\ query = <<"w", "e", "a", "t", "h", "e", "r", " ", "t", "o",
                        "m", "o", "r", "r", "o", "w">>
               /\ location # NoLocation
               /\ location.city = <<"P", "a", "r", "i", "s">>
               /\ location.country = <<"F", "r", "a", "n", "c", "e">>)
                => sent = <<"w", "e", "a", "t", "h", "e", "r", " ", "t", "o",
                            "m", "o", "r", "r", "o", "w", " ", "i", "n", " ",
                            "P", "a", "r", "i", "s", ",", " ", "F", "r", "a",
                            "n", "c", "e">>
           /\ query = <<"t", "e", "l", "l", " ", "m", "e", " ", "a", " ", "j",
                       "o", "k", "e">>
                => sent = query
  ]_vars

\* C12 witness: "Local news" was submitted with coordinates and no place
\* name, and was sent with the coordinates phrase.
C12_Witness ==
  /\ sub = 1
  /\ query = <<"L", "o", "c", "a", "l", " ", "n", "e", "w", "s">>
  /\ results.query =
       <<"L", "o", "c", "a", "l", " ", "n", "e", "w", "s", " ", "a", "t",
         " ", "c", "o", "o", "r", "d", "i", "n", "a", "t", "e", "s", " ",
         "4", "8", ".", "8", "6", ",", " ", "2", ".", "3", "5">>

\* The step of the analyze request settling.
AnalyzeSettleStep == analyzeReq # NoRequest /\ analyzeReq' = NoRequest

\* C13 as stated: when the analyze request settles, either the returned
\* text becomes the analysis of the result set, whose query and slots stay
\* as they were (success), or the result set is unchanged (failure); in
\* both cases analyzing is false again and the action can be invoked once
\* more when no slot is pending.
C13_AnalyzeSettleSetsTextOrNothing ==
  [][AnalyzeSettleStep =>
       /\ \/ /\ results # NoResult
             /\ results' =
                  [results EXCEPT !.analysis = AnalysisText(analyzeReq)]
          \/ results' = results
       /\ analyzing' = FALSE
       /\ (results' # NoResult /\ \A i \in Slots :
                                    ~results'.responses[i].loading)
            => AnalyzeEnabled'
  ]_vars

\* loading is reset only when no request of the current submission is in
\* flight and no slot is pending.
LoadingResetAfterAllSettled ==
  [][(loading /\ ~loading') =>
       /\ \A r \in inflight : r.sub # sub
       /\ AllSettled
  ]_vars

\* C14 as stated: if every provider request settles, then after every
\* accepted submission a state is reached in which no slot is pending,
\* loading is false and the analysis action can be invoked; and loading is
\* not reset before the four requests have settled.
C14_EventuallyAnalyzable ==
  /\ LoadingResetAfterAllSettled
  /\ loading ~> (AllSettled /\ ~loading /\ ENABLED Analyze)

\* C14 amended: the same, where the analysis action can be invoked unless
\* an analyze request issued earlier is still in progress (its button is
\* shown, and disabled while analyzing is true).
C14_EventuallyAnalyzableUnlessAnalyzing ==
  /\ LoadingResetAfterAllSettled
  /\ loading ~> (AllSettled /\ ~loading /\ (analyzing \/ ENABLED Analyze))

\* C14 witness: the four requests of the second submission have settled,
\* loading is false again and the analysis action can be invoked.
C14_Witness ==
  /\ sub = 2
  /\ AllSettled
  /\ ~loading
  /\ ENABLED Analyze


-----------------------------------------------------------------------------
(* C15: an analysis belongs to the result set it is attached to. *)

\* The text an analyze request issued for the current result set returns.
AnalysisOfCurrent == AnalysisText([sub |-> sub])

\* C15: whenever the current result set carries an analysis, the analysis
\* was returned by an analyze request issued for that same result set, and
\* a result set with a pending slot carries no analysis.
C15_AnalysisBelongsToResultSet ==
  (HasResults /\ results.analysis # Undefined) =>
    /\ results.analysis = AnalysisOfCurrent
    /\ \A i \in Slots : ~Pending(i)
=============================================================================
